---- MODULE Spec2Model ----
(***************************************************************************)
(* Model of pynetdicom/apps/storescu/storescu.py: the storescu script.     *)
(* The script is one sequential thread of control; pc is its position in   *)
(* the module body.  The association library (ApplicationEntity,           *)
(* request_association, send_c_store, Release, Quit) is not part of the    *)
(* script; its outcomes are drawn nondeterministically.                    *)
(***************************************************************************)
EXTENDS Integers, Sequences, FiniteSets, TLC

\* ---------------------------------------------------------------- bounds
\* largest number of elements of a parsed data set
MaxElems == 2
\* largest number of raw value bytes of an element
MaxBytes == 2
\* largest value of one raw byte that is enumerated (a byte is 0..255)
MaxByte == 1

\* ------------------------------------------------------------ data model
ImplicitVRLittleEndian == "1.2.840.10008.1.2"
ExplicitVRLittleEndian == "1.2.840.10008.1.2.1"
ExplicitVRBigEndian == "1.2.840.10008.1.2.2"
\* a transfer syntax the script does not list (JPEG baseline)
OtherTransferSyntax == "1.2.840.10008.1.2.4.50"

TransferSyntaxUIDs ==
  {ImplicitVRLittleEndian, ExplicitVRLittleEndian, ExplicitVRBigEndian,
   OtherTransferSyntax}

\* raw value bytes, as pydicom hands them over for an unresolved VR
ByteSeqs == UNION {[1..n -> 0..MaxByte] : n \in 0..MaxBytes}

\* elem.value is either a bytes object or a Python int
BytesVal(b) == [kind |-> "bytes", bytes |-> b, n |-> 0]
IntVal(k) == [kind |-> "int", bytes |-> <<>>, n |-> k]

\* the elements read_file can produce: the two ambiguous VRs and OW carry raw
\* bytes, US carries an already decoded integer
Elements ==
  {[VR |-> vr, value |-> BytesVal(b)] :
      vr \in {"US or SS", "OB or OW", "OW"}, b \in ByteSeqs}
  \cup {[VR |-> "US", value |-> IntVal(k)] : k \in 0..MaxByte}

\* a data set is the ordered sequence of its elements; the position of an
\* element stands for its (unique) tag
DataSets == UNION {[1..n -> Elements] : n \in 0..MaxElems}

\* pc          position in the module body
\* readResult  how the try block of lines 107-110 ended
\* parsed      the data set as read_file returned it (never written again)
\* dataset     the data set the script holds and corrects in place
\* uid         dataset.file_meta.TransferSyntaxUID
\* byte_order  the script's byte_order
\* assoc       outcome of request_association
\* status      what send_c_store returned
\* idx         position of the for loop of line 149
\* calls       the calls made to the association library, in order
\* logged      the (level, message) pairs handed to the logger
\* exitStatus  exit status of the process, -1 while it runs
\* pass, once  number of the correction pass and the result of the first one
VARIABLES pc, readResult, parsed, dataset, uid, byte_order, assoc,
          status, idx, calls, logged, exitStatus, pass, once

vars == <<pc, readResult, parsed, dataset, uid, byte_order, assoc,
          status, idx, calls, logged, exitStatus, pass, once>>

\* ------------------------------------------------------- pure functions
RECURSIVE Pow256(_)
Pow256(k) == IF k = 0 THEN 1 ELSE 256 * Pow256(k - 1)

\* int.from_bytes(b, byteorder=bo): big-endian reads the most significant
\* byte first, little-endian reads the bytes in reverse
RECURSIVE FromBytesBig(_)
FromBytesBig(b) ==
  IF Len(b) = 0 THEN 0
  ELSE 256 * FromBytesBig(SubSeq(b, 1, Len(b) - 1)) + b[Len(b)]

Reverse(b) == [i \in 1..Len(b) |-> b[Len(b) + 1 - i]]

\* int.from_bytes with the byteorder argument ignored
IntFromBytesBigOnly(b, bo) == FromBytesBig(b)

IntFromBytes(b, bo) ==
  IF bo = "little" THEN FromBytesBig(Reverse(b)) ELSE FromBytesBig(b)

\* the membership test of line 118 with its second UID left out
ByteOrderOfImplicitOnly(u) ==
  IF u \in {"1.2.840.10008.1.2"} THEN "little" ELSE "big"

\* lines 118-122: the byte order chosen for a TransferSyntaxUID
ByteOrderOf(u) ==
  IF u \in {"1.2.840.10008.1.2", "1.2.840.10008.1.2.1"}
  THEN "little" ELSE "big"

\* the loop body with the conversion of line 157 repeated in the OW branch
CorrectElemDecodeOW(e, bo) ==
  IF e.VR = "US or SS"
  THEN [VR |-> "US", value |-> IntVal(IntFromBytes(e.value.bytes, bo))]
  ELSE IF e.VR = "OB or OW"
       THEN [VR |-> "OW", value |-> IntVal(IntFromBytes(e.value.bytes, bo))]
       ELSE e

\* the loop body with the wrong VR literal assigned at line 165
CorrectElemWrongVR(e, bo) ==
  IF e.VR = "US or SS"
  THEN [VR |-> "US", value |-> IntVal(IntFromBytes(e.value.bytes, bo))]
  ELSE IF e.VR = "OB or OW" THEN [e EXCEPT !.VR = "US or SS"] ELSE e

\* lines 153-165: the body of the correction loop for one element
CorrectElem(e, bo) ==
  LET e1 == IF e.VR = "US or SS"
            THEN [VR |-> "US",
                  value |-> IntVal(IntFromBytes(e.value.bytes, bo))]
            ELSE e
  IN IF e1.VR = "OB or OW" THEN [e1 EXCEPT !.VR = "OW"] ELSE e1

\* the debug lines the loop body logs for one element
CorrectLog(e) ==
  (IF e.VR = "US or SS" THEN {<<"debug", "Setting undefined VR to US">>}
   ELSE {})
  \cup (IF e.VR = "OB or OW" THEN {<<"debug", "Setting undefined VR to OW">>}
        ELSE {})

\* ----------------------------------------------------------------- Init
Init ==
  /\ pc = "read"
  /\ readResult = "none"
  /\ parsed = <<>>
  /\ dataset = <<>>
  /\ uid = "none"
  /\ byte_order = "unset"
  /\ assoc = "none"
  /\ status = "none"
  /\ idx = 0
  /\ calls = <<>>
  /\ logged = {<<"debug", "Checking input files">>}
  /\ exitStatus = -1
  /\ pass = 0
  /\ once = <<>>

\* -------------------------------------------------------------- actions
\* the read step with handlers that log and carry on with an empty data set
ReadFileNoExit ==
  /\ pc = "read"
  /\ \/ \E ds \in DataSets, u \in TransferSyntaxUIDs :
          /\ readResult' = "ok"
          /\ parsed' = ds
          /\ dataset' = ds
          /\ uid' = u
          /\ UNCHANGED logged
     \/ /\ readResult' = "IOError"
        /\ logged' = logged \cup {<<"error", "Cannot read input file">>}
        /\ UNCHANGED <<parsed, dataset, uid>>
     \/ /\ readResult' = "OtherError"
        /\ logged' = logged \cup {<<"error", "File may not be DICOM">>}
        /\ UNCHANGED <<parsed, dataset, uid>>
  /\ pc' = "resolve"
  /\ UNCHANGED <<byte_order, assoc, status, idx, calls, exitStatus, pass,
                 once>>

\* lines 107-116: open and parse the input file; both handlers log an error
\* and call sys.exit() with no argument, which ends the process with status 0
ReadFile ==
  /\ pc = "read"
  /\ \/ \E ds \in DataSets, u \in TransferSyntaxUIDs :
          /\ readResult' = "ok"
          /\ parsed' = ds
          /\ dataset' = ds
          /\ uid' = u
          /\ pc' = "resolve"
          /\ UNCHANGED <<logged, exitStatus>>
     \/ /\ readResult' = "IOError"
        /\ logged' = logged \cup {<<"error", "Cannot read input file">>}
        /\ pc' = "done"
        /\ exitStatus' = 0
        /\ UNCHANGED <<parsed, dataset, uid>>
     \/ /\ readResult' = "OtherError"
        /\ logged' = logged \cup {<<"error", "File may not be DICOM">>}
        /\ pc' = "done"
        /\ exitStatus' = 0
        /\ UNCHANGED <<parsed, dataset, uid>>
  /\ UNCHANGED <<byte_order, assoc, status, idx, calls, pass, once>>

\* lines 118-122
Resolve ==
  /\ pc = "resolve"
  /\ byte_order' = ByteOrderOf(uid)
  /\ pc' = "create_ae"
  /\ UNCHANGED <<readResult, parsed, dataset, uid, assoc, status, idx,
                 calls, logged, exitStatus, pass, once>>

\* lines 134-139
CreateAE ==
  /\ pc = "create_ae"
  /\ calls' = Append(calls, "AE")
  /\ pc' = "request"
  /\ UNCHANGED <<readResult, parsed, dataset, uid, byte_order, assoc, status,
                 idx, logged, exitStatus, pass, once>>

\* the states in which the library's negotiation can end
AssociationOutcomes == {"Established", "Rejected", "Aborted"}

\* what the library's send_c_store can return
Statuses == {"Success", "Warning", "Failure"}

\* line 142: the negotiation ends established, rejected or aborted
RequestAssociation ==
  /\ pc = "request"
  /\ calls' = Append(calls, "request_association")
  /\ \E outcome \in AssociationOutcomes : assoc' = outcome
  /\ pc' = "check"
  /\ UNCHANGED <<readResult, parsed, dataset, uid, byte_order, status, idx,
                 logged, exitStatus, pass, once>>

\* the step of line 144 without its test
CheckEstablishedAlways ==
  /\ pc = "check"
  /\ logged' = logged \cup {<<"info", "Sending file">>}
  /\ idx' = 1
  /\ pc' = "loop"
  /\ UNCHANGED <<readResult, parsed, dataset, uid, byte_order, assoc, status,
                 calls, exitStatus, pass, once>>

\* lines 144-145: if assoc.Established
CheckEstablished ==
  /\ pc = "check"
  /\ IF assoc = "Established"
     THEN /\ logged' = logged \cup {<<"info", "Sending file">>}
          /\ idx' = 1
          /\ pc' = "loop"
     ELSE /\ pc' = "quit"
          /\ UNCHANGED <<logged, idx>>
  /\ UNCHANGED <<readResult, parsed, dataset, uid, byte_order, assoc, status,
                 calls, exitStatus, pass, once>>

\* lines 149-165: one iteration of the correction loop
CorrectLoop ==
  /\ pc = "loop"
  /\ idx <= Len(dataset)
  /\ dataset' = [dataset EXCEPT ![idx] = CorrectElem(@, byte_order)]
  /\ logged' = logged \cup CorrectLog(dataset[idx])
  /\ idx' = idx + 1
  /\ UNCHANGED <<pc, readResult, parsed, uid, byte_order, assoc, status,
                 calls, exitStatus, pass, once>>

\* line 167: the loop is exhausted and send_c_store is called once; it
\* returns a Status, or fails with TransferInterrupted, and nothing in the
\* module body catches that: the process ends with a traceback, status 1
SendCStore ==
  /\ pc = "loop"
  /\ pass = 0
  /\ idx > Len(dataset)
  /\ calls' = Append(calls, "send_c_store")
  /\ \/ /\ \E st \in Statuses : status' = st
        /\ pc' = "release"
        /\ UNCHANGED exitStatus
     \/ /\ status' = "TransferInterrupted"
        /\ pc' = "done"
        /\ exitStatus' = 1
  /\ UNCHANGED <<readResult, parsed, dataset, uid, byte_order, assoc, idx,
                 logged, pass, once>>

\* line 169
Release ==
  /\ pc = "release"
  /\ calls' = Append(calls, "Release")
  /\ pc' = "quit"
  /\ UNCHANGED <<readResult, parsed, dataset, uid, byte_order, assoc, status,
                 idx, logged, exitStatus, pass, once>>

\* line 173, then the end of the module body: exit status 0
Quit ==
  /\ pc = "quit"
  /\ calls' = Append(calls, "Quit")
  /\ pc' = "done"
  /\ exitStatus' = 0
  /\ UNCHANGED <<readResult, parsed, dataset, uid, byte_order, assoc, status,
                 idx, logged, pass, once>>

Next ==
  \/ ReadFile
  \/ Resolve
  \/ CreateAE
  \/ RequestAssociation
  \/ CheckEstablished
  \/ CorrectLoop
  \/ SendCStore
  \/ Release
  \/ Quit

Spec == Init /\ [][Next]_vars

\* ------------------------------------- the correction loop, run twice
\* The loop of lines 149-165 applied to every data set and both byte
\* orders, and then a second time to its own result.
InitCorr ==
  /\ pc = "loop"
  /\ readResult = "ok"
  /\ parsed \in DataSets
  /\ dataset = parsed
  /\ uid \in TransferSyntaxUIDs
  /\ byte_order = ByteOrderOf(uid)
  /\ assoc = "Established"
  /\ status = "none"
  /\ idx = 1
  /\ calls = <<"AE", "request_association">>
  /\ logged = {<<"debug", "Checking input files">>, <<"info", "Sending file">>}
  /\ exitStatus = -1
  /\ pass = 1
  /\ once = <<>>

SecondPass ==
  /\ pc = "loop"
  /\ pass = 1
  /\ idx > Len(dataset)
  /\ once' = dataset
  /\ pass' = 2
  /\ idx' = 1
  /\ UNCHANGED <<pc, readResult, parsed, dataset, uid, byte_order, assoc,
                 status, calls, logged, exitStatus>>

NextCorr == CorrectLoop \/ SecondPass

CorrSpec == InitCorr /\ [][NextCorr]_vars

\* the names lines 118-122 bind: the byte order and nothing else
ResolverOutput == [byte_order |-> byte_order]

\* ------------------------------------------------------ shared notions
Count(s, x) == Cardinality({i \in 1..Len(s) : s[i] = x})

\* the elements the loop has already visited
Visited == IF pc = "loop" THEN 1..(idx - 1) ELSE 1..Len(dataset)

\* the loop ran (the association was established)
LoopEntered == pc = "loop" \/ Count(calls, "send_c_store") > 0

Sent == Count(calls, "send_c_store")

ReadFailed == readResult \in {"IOError", "OtherError"}

Ambiguous == {"US or SS", "OB or OW"}

\* unsigned value of a byte string, as the sum of its digits in base 256
RECURSIVE DigitSum(_, _, _)
DigitSum(b, k, bo) ==
  IF k = 0 THEN 0
  ELSE b[k] * Pow256(IF bo = "little" THEN k - 1 ELSE Len(b) - k)
       + DigitSum(b, k - 1, bo)

Unsigned(b, bo) == DigitSum(b, Len(b), bo)

\* the byte order the two little-endian UIDs and the others stand for
OrderOfFile ==
  CASE uid = ImplicitVRLittleEndian -> "little"
    [] uid = ExplicitVRLittleEndian -> "little"
    [] OTHER -> "big"

\* ---------------------------------------------------------------- claims

\* C1: once the association is Established, every run that ends has issued
\* Release (the script never issues Abort), also when send_c_store fails.
C1_TeardownOnEveryExit ==
  (pc = "done" /\ assoc = "Established") => Count(calls, "Release") > 0

\* C2: send_c_store is invoked at most once and only on an Established
\* association, exactly once when it is Established; on a rejected or
\* otherwise non-established association it is never invoked and no
\* "Sending file" line is logged.
C2_SendOnceOnlyIfEstablished ==
  /\ Sent <= 1
  /\ Sent > 0 => assoc = "Established"
  /\ (pc \in {"release", "quit", "done"} /\ assoc = "Established") => Sent = 1
  /\ assoc # "Established" =>
        Sent = 0 /\ <<"info", "Sending file">> \notin logged

C2_Witness ==
  pc = "done" /\ assoc = "Established" /\ Sent = 1 /\ status = "Success"

\* C3: after a failure to open or parse the input file the run is over and
\* no call to the association library (AE, request_association,
\* send_c_store, Release, Quit) has been or will be made.
C3_NoNetworkAfterReadFailure ==
  ReadFailed => (pc = "done" /\ calls = <<>>)

C3_Witness == readResult = "IOError" /\ pc = "done" /\ calls = <<>>

\* C4: on an unreadable (IOError) or non-DICOM (any other exception) input
\* file the process logs an error and exits with a non-zero status.
C4_ErrorLoggedAndNonZeroExit ==
  (pc = "done" /\ ReadFailed) =>
    /\ \E m \in logged : m[1] = "error"
    /\ exitStatus # 0

\* C5: every element that was 'US or SS' when the loop reached it has VR
\* 'US' afterwards and the unsigned integer of its original bytes in the
\* byte order of the file's TransferSyntaxUID as its value.
C5_UsOrSsDecoded ==
  LoopEntered =>
    \A i \in Visited :
      parsed[i].VR = "US or SS" =>
        /\ dataset[i].VR = "US"
        /\ dataset[i].value.kind = "int"
        /\ dataset[i].value.n = Unsigned(parsed[i].value.bytes, OrderOfFile)

C5_Witness ==
  /\ pc = "done"
  /\ uid = ImplicitVRLittleEndian
  /\ \E i \in 1..Len(parsed) :
        /\ parsed[i] = [VR |-> "US or SS", value |-> BytesVal(<<0, 1>>)]
        /\ dataset[i] = [VR |-> "US", value |-> IntVal(256)]

\* C6: the loop changes nothing but the two ambiguous VRs: an 'OB or OW'
\* element becomes 'OW' with the same value bytes, and an element of any
\* other VR than the two ambiguous ones keeps its VR and its value.
C6_OnlyAmbiguousChanged ==
  readResult = "ok" =>
    /\ Len(dataset) = Len(parsed)
    /\ \A i \in 1..Len(parsed) :
         /\ (LoopEntered /\ i \in Visited /\ parsed[i].VR = "OB or OW") =>
               dataset[i] = [VR |-> "OW", value |-> parsed[i].value]
         /\ parsed[i].VR \notin Ambiguous => dataset[i] = parsed[i]

C6_Witness ==
  /\ pc = "done"
  /\ Sent = 1
  /\ \E i, j \in 1..Len(parsed) :
        /\ parsed[i] = [VR |-> "OB or OW", value |-> BytesVal(<<1, 0>>)]
        /\ dataset[i] = [VR |-> "OW", value |-> BytesVal(<<1, 0>>)]
        /\ parsed[j].VR = "OW"
        /\ dataset[j] = parsed[j]

\* C7: the correction loop is idempotent: during and after a second pass
\* the data set is what the first pass left.
C7_Idempotent == pass = 2 => dataset = once

C7_Witness ==
  /\ pass = 2
  /\ idx > Len(dataset)
  /\ \E i, j \in 1..Len(parsed) :
        /\ parsed[i].VR = "US or SS" /\ Len(parsed[i].value.bytes) = 2
        /\ parsed[j].VR = "OB or OW"

\* C8: a run whose data set holds a 'US or SS' element whose value is not
\* two bytes wide never invokes send_c_store (the correction fails).
C8_MalformedNotSent ==
  (\E i \in 1..Len(parsed) :
      parsed[i].VR = "US or SS" /\ Len(parsed[i].value.bytes) # 2)
  => Sent = 0

C10_QuitExactlyOnce ==
  (pc = "done" /\ Count(calls, "AE") > 0) =>
    /\ Count(calls, "Quit") = 1
    /\ status \in {"Warning", "Failure"} => Count(calls, "Release") = 1

====
